---- MODULE Spec2Model ----
(***************************************************************************)
(* Model of the standard Invoker (src/standard/invoker/mod.rs): the four   *)
(* operations new_transact, finalize_transact, enter_substack and          *)
(* exit_substack, over a transactional backend with a substate stack, a    *)
(* gas meter per frame and an abstract interpreter state per frame.        *)
(*                                                                         *)
(* U256 is scaled down to WordBits bits; the saturating operations keep    *)
(* that width.  The gasometer G, the runtime state S and the backend H are *)
(* type parameters of the Invoker: what they report (remaining gas,        *)
(* failures) is an input of the operations.                                *)
(***************************************************************************)
EXTENDS Integers, Sequences, FiniteSets, TLC

VARIABLES config, pc, funds, invoke, frames, substates, pushes, pops, ret, fin, log

vars == <<config, pc, funds, invoke, frames, substates, pushes, pops, ret, fin, log>>

(* ------------------------------ bounds --------------------------------- *)

WordBits == 8
MaxWord == 2^WordBits - 1
Word == 0..MaxWord

\* the values the inputs are drawn from: the ends of the range, the values
\* around the divisor of the 63/64 rule, and pairs whose product overflows
Samples == {0, 1, 2, 64, (MaxWord + 1) \div 2, MaxWord}

\* substate scopes pushed over one transaction
MaxPushes == 3

\* the caller's balance before the transaction
Funds == {1, MaxWord}

(* ------------------------- configuration (Config) ---------------------- *)

\* the Config the Invoker is built with (Invoker::new); it never changes
Config(limit, stipend, l64) ==
    [call_stack_limit |-> limit, call_stipend |-> stipend, call_l64_after_gas |-> l64,
     increase_state_access_gas |-> TRUE, warm_coinbase_address |-> TRUE]

DefaultConfig == Config(2, 1, TRUE)

(* ------------------------------ values --------------------------------- *)

\* ExitResult: Ok(ExitSucceed) or Err(ExitError::{Reverted, Exception, Fatal})
ExitResult == {"Succeed", "Reverted", "Exception", "Fatal"}

is_ok(result) == result = "Succeed"

\* MergeStrategy
MergeStrategy == {"Commit", "Revert", "Discard"}

\* access_list: Vec<(H160, Vec<H256>)>
AccessLists ==
    { <<>>,
      << [address |-> "A", keys |-> <<1, 2>>] >>,
      << [address |-> "B", keys |-> <<>>], [address |-> "A", keys |-> <<2>>] >> }

\* one call on the backend, the gas meter or the interpreter state
Ev(op, a, n) == [op |-> op, a |-> a, n |-> n]

\* backend calls that change the state of the current substate
WriteOps == {"withdrawal", "deposit", "mark_hot", "transfer", "inc_nonce", "set_code"}

Range(s) == { s[i] : i \in 1..Len(s) }

Writes(evs) == { e \in Range(evs) : e.op \in WriteOps }

(* --------------------------- U256 arithmetic --------------------------- *)

saturating_mul(a, b) == IF a * b > MaxWord THEN MaxWord ELSE a * b

saturating_sub(a, b) == IF a < b THEN 0 ELSE a - b

saturating_add(a, b) == IF a + b > MaxWord THEN MaxWord ELSE a + b

(* ------------------- backend (TransactionalBackend) -------------------- *)

\* substates[1] is the state outside every scope; a scope holds the writes
\* made since its push.  Commit keeps them in the scope below; Revert and
\* Discard drop them.
push_substate(stack) == Append(stack, {})

pop_substate(stack, strategy) ==
    LET n == Len(stack)
        below == SubSeq(stack, 1, n - 2)
    IN IF strategy = "Commit"
       THEN Append(below, stack[n - 1] \cup stack[n])
       ELSE Append(below, stack[n - 1])

\* the writes of evs land in the scope on top
write_top(stack, evs) ==
    [stack EXCEPT ![Len(stack)] = @ \cup Writes(evs)]

(* ----------------------------- records --------------------------------- *)

NoInvoke == [create_address |-> "None", gas_fee |-> 0, gas_price |-> 0, caller |-> "None"]

\* what the last operation was given (input) and what it returned (result)
NoRet == [op |-> "none", input |-> "none", result |-> "none", trap |-> "none", depth |-> 0]

\* what finalize_transact was given and what it computed
NoFin == [result |-> "none", final |-> "none", gas_limit |-> 0, left_gas |-> 0,
          deploy_gas |-> 0, refunded_fee |-> 0, coinbase_reward |-> 0]

\* a frame: its gas meter (gas), its RuntimeState (budget, the gas limit the
\* state was built with) and its interpreter (stack: as built, "trapped" once
\* new_from has taken the operands of a call or create, or the outcome that
\* feedback wrote back)
GasedMachine(kind, is_static, budget, gas, address) ==
    [kind |-> kind, is_static |-> is_static, gas |-> gas, address |-> address,
     budget |-> budget, stack |-> "fresh"]

(* ------------------------ calls made by an operation ------------------- *)

\* a call that returned Err: it is made, and changes nothing
Failed(ev) == Ev("err", ev.op, ev.n)

RECURSIVE apply_calls(_, _)
apply_calls(stack, calls) ==
    IF calls = <<>> THEN stack
    ELSE LET c == Head(calls)
             next == IF c.op = "pop_substate" THEN pop_substate(stack, c.a)
                     ELSE IF c.op = "push_substate" THEN push_substate(stack)
                     ELSE write_top(stack, <<c>>)
         IN apply_calls(next, Tail(calls))

RECURSIVE CountOp(_, _)
CountOp(calls, op) ==
    IF calls = <<>> THEN 0
    ELSE (IF Head(calls).op = op THEN 1 ELSE 0) + CountOp(Tail(calls), op)

\* the calls of a closure whose fail_at-th call returns Err (0: none does)
run_until(steps, fail_at) ==
    IF fail_at = 0 THEN steps
    ELSE Append(SubSeq(steps, 1, fail_at - 1), Failed(steps[fail_at]))

(* ----------------------------- new_transact ---------------------------- *)

\* the fee computed with a wrapping product
gas_fee_wrapping(gas_limit, gas_price) == (gas_limit * gas_price) % (MaxWord + 1)

gas_fee_of(gas_limit, gas_price) == saturating_mul(gas_limit, gas_price)

RECURSIVE mark_keys(_, _)
mark_keys(address, keys) ==
    IF keys = <<>> THEN <<>>
    ELSE <<Ev("mark_hot", address, Head(keys))>> \o mark_keys(address, Tail(keys))

\* the loop that marks the keys of an entry before its address
RECURSIVE mark_access_list_keys_first(_)
mark_access_list_keys_first(access_list) ==
    IF access_list = <<>> THEN <<>>
    ELSE mark_keys(Head(access_list).address, Head(access_list).keys)
         \o <<Ev("mark_hot", Head(access_list).address, 0)>>
         \o mark_access_list_keys_first(Tail(access_list))

\* for (address, keys) in &access_list { mark_hot(address, None); for key in keys { mark_hot(address, Some(key)) } }
RECURSIVE mark_access_list(_)
mark_access_list(access_list) ==
    IF access_list = <<>> THEN <<>>
    ELSE <<Ev("mark_hot", Head(access_list).address, 0)>>
         \o mark_keys(Head(access_list).address, Head(access_list).keys)
         \o mark_access_list(Tail(access_list))

warm_steps ==
    IF config.increase_state_access_gas
    THEN (IF config.warm_coinbase_address
          THEN <<Ev("block_coinbase", "coinbase", 0), Ev("mark_hot", "coinbase", 0)>>
          ELSE <<>>)
         \o <<Ev("mark_hot", "caller", 0), Ev("mark_hot", "target", 0)>>
    ELSE <<>>

\* routines::make_enter_call_machine / make_enter_create_machine: builds the
\* interpreter state with the transfer of value to the target
make_enter_machine(target, value) == <<Ev("transfer", target, value)>>

\* the body of the closure `work`, as the sequence of its calls
work_steps(kind, value, access_list) ==
    IF kind = "Call"
    THEN mark_access_list(access_list)
         \o <<Ev("code", "target", 0),
              Ev("new_transact_call", "gasometer", 0)>>
         \o make_enter_machine("target", value)
         \o warm_steps
         \o <<Ev("inc_nonce", "caller", 0)>>
    ELSE <<Ev("new_transact_create", "gasometer", 0)>>
         \o make_enter_machine("created", value)

\* the calls that return a Result and are followed by `?`
Fallible == {"mark_hot", "new_transact_call", "new_transact_create", "transfer", "inc_nonce"}

FailPoints(steps) == {0} \cup { i \in 1..Len(steps) : steps[i].op \in Fallible }

\* the error path that forgets the scope it pushed
transact_cleanup_leaks(failed) == <<>>

\* the error path that keeps what the failed setup wrote
transact_cleanup_commits(failed) ==
    IF failed THEN <<Ev("pop_substate", "Commit", 0)>> ELSE <<>>

\* match work() { Ok(ret) => Ok(ret), Err(err) => { pop_substate(Discard); Err(err) } }
transact_cleanup(failed) ==
    IF failed THEN <<Ev("pop_substate", "Discard", 0)>> ELSE <<>>

\* the address of the frame, and the backend read that derives it for a Create
transact_address(kind) ==
    IF kind = "Call" THEN <<>> ELSE <<Ev("create_address", "caller", 0)>>

\* the refusal that comes after the scope was pushed
transact_refused_after_push(withdrawal) == <<Ev("push_substate", "", 0), Failed(withdrawal)>>

\* handler.withdrawal(caller, gas_fee)? returns Err: the only call made
transact_refused(withdrawal) == <<Failed(withdrawal)>>

new_transact(kind, gas_limit, gas_price, value, access_list, meter_gas, fail_at, err) ==
    LET gas_fee == gas_fee_of(gas_limit, gas_price)
        address == IF kind = "Call" THEN "target" ELSE "created"
        failed == fail_at # 0
        withdrawal == Ev("withdrawal", "caller", gas_fee)
        refused == funds < gas_fee
        here == [NoRet EXCEPT !.op = "new_transact",
                              !.input = [kind |-> kind, access_list |-> access_list]]
        calls == IF refused
                 THEN transact_refused(withdrawal)
                 ELSE <<withdrawal>>
                      \o transact_address(kind)
                      \o <<Ev("push_substate", "", 0)>>
                      \o run_until(work_steps(kind, value, access_list), fail_at)
                      \o transact_cleanup(failed)
    IN /\ UNCHANGED <<config, funds, fin>>
       /\ log' = calls
       /\ pushes' = pushes + CountOp(calls, "push_substate")
       /\ pops' = pops + CountOp(calls, "pop_substate")
       /\ substates' = apply_calls(substates, calls)
       /\ IF refused
          THEN /\ pc' = "closed"
               /\ ret' = [here EXCEPT !.result = "OutOfFund"]
               /\ UNCHANGED <<invoke, frames>>
          ELSE /\ IF failed
                  THEN /\ pc' = "closed"
                       /\ ret' = [here EXCEPT !.result = err]
                       /\ UNCHANGED <<invoke, frames>>
                  ELSE /\ pc' = "running"
                       /\ ret' = [here EXCEPT !.result = "Ok"]
                       /\ invoke' = [create_address |-> IF kind = "Call" THEN "None" ELSE address,
                                     gas_fee |-> gas_fee,
                                     gas_price |-> gas_price,
                                     caller |-> "caller"]
                       /\ frames' = <<GasedMachine("Transact", FALSE, gas_limit, meter_gas, address)>>

(* --------------------------- finalize_transact ------------------------- *)

\* routines::deploy_create_code: charges deploy_gas on the meter, or fails
deploy_create_code(address, gas, deploy_gas, deploy_ok) ==
    IF deploy_ok
    THEN [result |-> "Succeed", gas |-> gas - deploy_gas,
          calls |-> <<Ev("record_codedeposit", "gasometer", deploy_gas), Ev("set_code", address, 0)>>]
    ELSE [result |-> "Exception", gas |-> gas,
          calls |-> <<Failed(Ev("deploy_create_code", address, 0))>>]

\* the closure that lets a failed deployment pass
finalize_work_ignores_deploy(result, create_address, deployed) == result

\* the closure `work` of finalize_transact
finalize_work(result, create_address, deployed) ==
    IF is_ok(result) /\ create_address # "None"
    THEN (IF deployed.result = "Succeed" THEN result ELSE deployed.result)
    ELSE result

\* the refund that is paid whatever the outcome
refunded_gas_always(result, left_gas) == left_gas

\* the refund that is withheld on a revert
refunded_gas_no_revert(result, left_gas) == IF is_ok(result) THEN left_gas ELSE 0

refunded_gas_of(result, left_gas) ==
    IF result \in {"Succeed", "Reverted"} THEN left_gas ELSE 0

refunded_fee_of(refunded_gas, gas_price) == saturating_mul(refunded_gas, gas_price)

\* the reward with the operands of the subtraction swapped
coinbase_reward_swapped(gas_fee, refunded_fee) == saturating_sub(refunded_fee, gas_fee)

coinbase_reward_of(gas_fee, refunded_fee) == saturating_sub(gas_fee, refunded_fee)

\* the strategy of a child frame, used for the transaction
finalize_strategy_of_child(result) ==
    IF is_ok(result) THEN "Commit"
    ELSE IF result = "Reverted" THEN "Revert"
    ELSE "Discard"

finalize_strategy(result) == IF is_ok(result) THEN "Commit" ELSE "Discard"

\* the backend calls of finalize_transact after `work`, in program order
finalize_calls(caller, refunded_fee, coinbase_reward, strategy) ==
    <<Ev("deposit", caller, refunded_fee),
      Ev("block_coinbase", "coinbase", 0),
      Ev("deposit", "coinbase", coinbase_reward),
      Ev("pop_substate", strategy, 0)>>

finalize_transact(result, deploy_gas, deploy_ok) ==
    LET machine == frames[1]
        left_gas == machine.gas
        deploys == is_ok(result) /\ invoke.create_address # "None"
        deployed == deploy_create_code(invoke.create_address, machine.gas, deploy_gas, deploy_ok)
        final == finalize_work(result, invoke.create_address, deployed)
        refunded_gas == refunded_gas_of(final, left_gas)
        refunded_fee == refunded_fee_of(refunded_gas, invoke.gas_price)
        coinbase_reward == coinbase_reward_of(invoke.gas_fee, refunded_fee)
        strategy == finalize_strategy(final)
        calls == (IF deploys THEN deployed.calls ELSE <<>>)
                 \o finalize_calls(invoke.caller, refunded_fee, coinbase_reward, strategy)
    IN /\ pc' = "closed"
       /\ frames' = <<>>
       /\ substates' = apply_calls(substates, calls)
       /\ pops' = pops + CountOp(calls, "pop_substate")
       /\ log' = calls
       /\ fin' = [result |-> result, final |-> final,
                  gas_limit |-> machine.budget, left_gas |-> machine.gas,
                  deploy_gas |-> IF deploys THEN machine.gas - deployed.gas ELSE 0,
                  refunded_fee |-> refunded_fee, coinbase_reward |-> coinbase_reward]
       /\ ret' = [NoRet EXCEPT !.op = "finalize_transact", !.input = result,
                               !.result = IF is_ok(final) THEN "Ok" ELSE final]
       /\ UNCHANGED <<config, funds, invoke, pushes>>

(* ----------------------------- enter_substack -------------------------- *)

\* target_gas() of a trap that requests no gas
NoGas == -1

\* the trap signal: an interrupt of the caller, or an opcode with the data
\* that CallCreateTrapData::new_from reads from the parent's interpreter
Trap(kind, has_value, is_static, target_gas) ==
    [kind |-> kind, has_value |-> has_value, is_static |-> is_static, target_gas |-> target_gas]

Traps ==
    { Trap("Interrupt", FALSE, FALSE, NoGas),
      Trap("Other", FALSE, FALSE, NoGas),
      Trap("Call", FALSE, FALSE, NoGas),
      Trap("Call", FALSE, FALSE, 1),
      Trap("Call", TRUE, FALSE, NoGas),
      Trap("Call", TRUE, TRUE, 1),
      Trap("Call", FALSE, TRUE, NoGas),
      Trap("Create", TRUE, FALSE, NoGas) }

\* the resolution that hands over call and create opcodes only
into_call_create_trap_strict(trap) == IF trap.kind \in {"Call", "Create"} THEN "Ok" ELSE "Err"

\* into_call_create_trap: Ok(opcode) or Err(interrupt)
into_call_create_trap(trap) == IF trap.kind = "Interrupt" THEN "Err" ELSE "Ok"

\* the depth check that refuses nothing
call_too_deep_never(depth) == FALSE

\* the depth check that lets one frame too many in
call_too_deep_late(depth) == depth > config.call_stack_limit

call_too_deep(depth) == depth >= config.call_stack_limit

\* the rule that forwards all the gas
l64_all(gas) == gas

l64(gas) == gas - gas \div 64

after_gas_of(gas) == IF config.call_l64_after_gas THEN l64(gas) ELSE gas

gas_limit_of(trap, gas) ==
    LET after_gas == after_gas_of(gas)
        target_gas == IF trap.target_gas = NoGas THEN after_gas ELSE trap.target_gas
        gas_limit == IF after_gas < target_gas THEN after_gas ELSE target_gas
    IN IF trap.kind = "Call" /\ trap.has_value
       THEN saturating_add(gas_limit, config.call_stipend)
       ELSE gas_limit

\* static-ness taken from the opcode alone
is_static_of_opcode(trap, parent_is_static) == trap.kind = "Call" /\ trap.is_static

is_static_of(trap, parent_is_static) ==
    IF parent_is_static THEN TRUE
    ELSE IF trap.kind = "Call" THEN trap.is_static ELSE FALSE

\* Gasometer::submeter: the forwarded gas leaves the parent's meter
submeter(gas, gas_limit) == saturating_sub(gas, gas_limit)

\* routines::enter_call_substack / enter_create_substack: push the scope, build
\* the child's machine, and pop the scope with Discard when that fails
enter_substack_routine(trap, machine_ok) ==
    LET target == IF trap.kind = "Call" THEN "target" ELSE "created"
        value == IF trap.has_value THEN 1 ELSE 0
        make == make_enter_machine(target, value)
    IN <<Ev("push_substate", "", 0)>>
       \o (IF machine_ok THEN make ELSE run_until(make, 1) \o <<Ev("pop_substate", "Discard", 0)>>)

enter_substack(trap, depth, fails) ==
    LET parent == frames[Len(frames)]
        here == [NoRet EXCEPT !.op = "enter_substack", !.input = trap,
                              !.trap = trap.kind, !.depth = depth]
        gas_limit == gas_limit_of(trap, parent.gas)
        is_static == is_static_of(trap, parent.is_static)
        address == IF trap.kind = "Call" THEN "target" ELSE "created"
        new_from == Ev("new_from", trap.kind, 0)
        code == Ev("code", address, 0)
        decoded == [parent EXCEPT !.stack = "trapped"]
        forwarded == [decoded EXCEPT !.gas = submeter(@, gas_limit)]
        routine == (IF trap.kind = "Create" THEN <<Ev("create_address", "caller", 0)>> ELSE <<>>)
                   \o enter_substack_routine(trap, fails # "machine")
        child == GasedMachine(trap.kind, is_static, gas_limit, gas_limit, address)
    IN /\ UNCHANGED <<config, pc, funds, invoke, fin>>
       /\ IF into_call_create_trap(trap) = "Err"
          THEN /\ ret' = [here EXCEPT !.result = "Trap"]
               /\ log' = <<>>
               /\ UNCHANGED <<frames, substates, pushes, pops>>
          ELSE IF call_too_deep(depth)
          THEN /\ ret' = [here EXCEPT !.result = "CallTooDeep"]
               /\ log' = <<>>
               /\ UNCHANGED <<frames, substates, pushes, pops>>
          ELSE IF trap.kind = "Other" \/ fails = "new_from"
          THEN \* CallCreateTrapData::new_from returns Err
               /\ ret' = [here EXCEPT !.result = "Exception"]
               /\ log' = <<Failed(new_from)>>
               /\ UNCHANGED <<frames, substates, pushes, pops>>
          ELSE IF fails = "submeter"
          THEN /\ ret' = [here EXCEPT !.result = "Exception"]
               /\ log' = <<new_from, code, Failed(Ev("submeter", "gasometer", gas_limit))>>
               /\ frames' = [frames EXCEPT ![Len(frames)] = decoded]
               /\ UNCHANGED <<substates, pushes, pops>>
          ELSE /\ log' = <<new_from, code, Ev("submeter", "gasometer", gas_limit)>> \o routine
               /\ substates' = apply_calls(substates, routine)
               /\ pushes' = pushes + CountOp(routine, "push_substate")
               /\ pops' = pops + CountOp(routine, "pop_substate")
               /\ IF fails # "machine"
                  THEN /\ ret' = [here EXCEPT !.result = "Ok"]
                       /\ frames' = Append([frames EXCEPT ![Len(frames)] = forwarded], child)
                  ELSE /\ ret' = [here EXCEPT !.result = "Exception"]
                       /\ frames' = [frames EXCEPT ![Len(frames)] = forwarded]

(* ----------------------------- exit_substack --------------------------- *)

\* the strategy that treats a revert as any other error
exit_strategy_no_revert(result) == IF is_ok(result) THEN "Commit" ELSE "Discard"

exit_strategy(result) ==
    IF is_ok(result) THEN "Commit"
    ELSE IF result = "Reverted" THEN "Revert"
    ELSE "Discard"

\* Gasometer::merge: the child's unused gas returns to the parent unless the
\* child is discarded
merge_gas(gas, child_gas, strategy) ==
    IF strategy = "Discard" THEN gas ELSE saturating_add(gas, child_gas)

\* the calls of exit_substack with the write-back made first
exit_calls_feedback_first(kind, strategy, result, deployed, feedback_ok) ==
    <<Ev("feedback", result, IF feedback_ok THEN 0 ELSE 1), Ev("merge_state", strategy, 0)>>
    \o deployed
    \o <<Ev("pop_substate", strategy, 0), Ev("merge_gas", strategy, 0)>>

\* the calls of exit_substack, in program order
exit_calls(kind, strategy, result, deployed, feedback_ok) ==
    LET \* trap.feedback(result, retbuf, &mut parent.machine)?, n = 1 when it returns Err
        last == Ev("feedback", result, IF feedback_ok THEN 0 ELSE 1)
    IN IF kind = "Create"
       THEN <<Ev("merge_state", strategy, 0)>>
            \o deployed
            \o <<Ev("pop_substate", strategy, 0), Ev("merge_gas", strategy, 0), last>>
       ELSE <<Ev("merge_state", strategy, 0),
              Ev("pop_substate", strategy, 0), Ev("merge_gas", strategy, 0), last>>

exit_substack(result, deploy_gas, deploy_ok, feedback_ok) ==
    LET child == frames[Len(frames)]
        parent == frames[Len(frames) - 1]
        strategy == exit_strategy(result)
        deploys == child.kind = "Create" /\ is_ok(result)
        deployed == deploy_create_code(child.address, child.gas, deploy_gas, deploy_ok)
        \* result.and_then(|_| { deploy_create_code(..)?; Ok(address) })
        final == IF deploys /\ deployed.result # "Succeed" THEN deployed.result ELSE result
        child_gas == IF deploys THEN deployed.gas ELSE child.gas
        calls == exit_calls(child.kind, strategy, final,
                            IF deploys THEN deployed.calls ELSE <<>>, feedback_ok)
        merged == [parent EXCEPT !.gas = merge_gas(@, child_gas, strategy)]
        fed == IF feedback_ok THEN [merged EXCEPT !.stack = final] ELSE merged
    IN /\ frames' = Append(SubSeq(frames, 1, Len(frames) - 2), fed)
       /\ substates' = apply_calls(substates, calls)
       /\ pops' = pops + CountOp(calls, "pop_substate")
       /\ log' = calls
       /\ ret' = [NoRet EXCEPT !.op = "exit_substack", !.input = result, !.trap = child.kind,
                               !.result = IF feedback_ok THEN "Ok" ELSE "Exception"]
       /\ UNCHANGED <<config, pc, funds, invoke, pushes, fin>>

(* ------------------------------ behaviour ------------------------------ *)

\* the state after Invoker::new(config), before any operation
Start(configs) ==
    /\ config \in configs
    /\ pc = "idle"
    /\ funds \in Funds
    /\ invoke = NoInvoke
    /\ frames = <<>>
    /\ substates = << {} >>
    /\ pushes = 0
    /\ pops = 0
    /\ ret = NoRet
    /\ fin = NoFin
    /\ log = <<>>

Init == Start({DefaultConfig})

\* gas charged by code deployment: nothing, one unit, or all that is left
DeployGas(gas) == {0, 1, gas} \cap 0..gas

\* whether code deployment runs, and the outcomes it then has
Deploys(kind, result) ==
    IF kind = "Create" /\ is_ok(result) THEN BOOLEAN ELSE {TRUE}

\* a transaction with any request
BeginAny ==
    /\ pc = "idle"
    /\ \E kind \in {"Call", "Create"}, gas_limit \in Samples, gas_price \in Samples,
          value \in {0, 1}, access_list \in AccessLists, meter_gas \in Samples :
        \E fail_at \in FailPoints(work_steps(kind, value, access_list)) :
            \E err \in (IF fail_at = 0 THEN {"Exception"} ELSE {"Exception", "Fatal"}) :
                new_transact(kind, gas_limit, gas_price, value, access_list, meter_gas, fail_at, err)

\* a transaction whose frames go on to call and create
Begin ==
    /\ pc = "idle"
    /\ \E kind \in {"Call", "Create"}, meter_gas \in {2, (MaxWord + 1) \div 2},
          access_list \in { << [address |-> "A", keys |-> <<1>>] >> } :
        \E fail_at \in FailPoints(work_steps(kind, 0, access_list)) :
            new_transact(kind, (MaxWord + 1) \div 2, 1, 0, access_list, meter_gas, fail_at, "Exception")

Finalize ==
    /\ pc = "running"
    /\ Len(frames) = 1
    /\ \E result \in ExitResult :
        \E deploy_ok \in Deploys(IF invoke.create_address = "None" THEN "Call" ELSE "Create", result) :
            \E deploy_gas \in (IF is_ok(result) /\ invoke.create_address # "None" /\ deploy_ok
                                THEN DeployGas(frames[1].gas) ELSE {0}) :
                finalize_transact(result, deploy_gas, deploy_ok)

Enter ==
    /\ pc = "running"
    /\ Len(frames) >= 1
    /\ \E trap \in Traps :
        LET depth == Len(frames) - 1
            builds == trap.kind \in {"Call", "Create"} /\ ~call_too_deep(depth)
        IN \E fails \in (IF builds THEN {"none", "new_from", "submeter", "machine"} ELSE {"none"}) :
            /\ (builds /\ fails \in {"none", "machine"}) => pushes < MaxPushes
            /\ enter_substack(trap, depth, fails)

Exit ==
    /\ pc = "running"
    /\ Len(frames) >= 2
    /\ \E result \in ExitResult, feedback_ok \in BOOLEAN :
        \E deploy_ok \in Deploys(frames[Len(frames)].kind, result) :
            \E deploy_gas \in (IF frames[Len(frames)].kind = "Create" /\ is_ok(result) /\ deploy_ok
                                THEN DeployGas(frames[Len(frames)].gas) ELSE {0}) :
                exit_substack(result, deploy_gas, deploy_ok, feedback_ok)

Next == Begin \/ Finalize \/ Enter \/ Exit

Spec == Init /\ [][Next]_vars

NextTransact == BeginAny \/ Finalize

SpecTransact == Init /\ [][NextTransact]_vars

\* an Invoker whose call-stack limit is reached before the bound on pushes
ShallowConfig == Config(1, 1, TRUE)

SpecDepth == Start({ShallowConfig}) /\ [][Next]_vars

\* the configurations of gas forwarding: the 63/64 rule on and off, two stipends
ForwardConfigs == { Config(2, stipend, rule) : stipend \in {1, 3}, rule \in BOOLEAN }

\* calls and creations, with and without value, that request no gas, little
\* gas, or more than the parent can have
ForwardTraps ==
    { Trap("Call", has_value, FALSE, target_gas) :
          has_value \in BOOLEAN, target_gas \in {NoGas, 1, 64, MaxWord} }
    \cup { Trap("Create", has_value, FALSE, NoGas) : has_value \in BOOLEAN }

\* a call transaction whose meter starts with any part of its gas limit
BeginForward ==
    /\ pc = "idle"
    /\ \E gas_limit \in Samples, meter_gas \in Samples :
        /\ meter_gas <= gas_limit
        /\ new_transact("Call", gas_limit, 1, 0, <<>>, meter_gas, 0, "Exception")

\* a frame that calls or creates, with every step of enter_substack succeeding
EnterForward ==
    /\ pc = "running"
    /\ Len(frames) >= 1
    /\ pushes < MaxPushes
    /\ \E trap \in ForwardTraps : enter_substack(trap, Len(frames) - 1, "none")

NextForward == BeginForward \/ EnterForward

SpecForward == Start(ForwardConfigs) /\ [][NextForward]_vars

(* ------------------------------- claims -------------------------------- *)

Min(a, b) == IF a < b THEN a ELSE b

finalized == ret.op = "finalize_transact"

deploy_failed == Failed(Ev("deploy_create_code", invoke.create_address, 0)) \in Range(log)

\* C1: over a transaction the pushes and the pops of substate scopes balance:
\* never more pops than pushes, one open scope per open frame while the
\* transaction runs, none once it has ended; new_transact pushes one scope
\* when it succeeds and pops what it pushed when it fails, exit_substack and
\* finalize_transact pop exactly one scope each.
PushPopBalance ==
    /\ pops <= pushes
    /\ Len(substates) = 1 + pushes - pops
    /\ pc = "running" => pushes - pops = Len(frames)
    /\ pc = "closed" => pushes = pops
    /\ ret.op = "new_transact" =>
          /\ CountOp(log, "push_substate") <= 1
          /\ IF ret.result = "Ok"
             THEN CountOp(log, "push_substate") = 1 /\ CountOp(log, "pop_substate") = 0
             ELSE CountOp(log, "pop_substate") = CountOp(log, "push_substate")
    /\ ret.op \in {"exit_substack", "finalize_transact"} =>
          CountOp(log, "pop_substate") = 1 /\ CountOp(log, "push_substate") = 0

\* a transaction that nested frames, some of them failing, and was finalized
NestedTransactionEnded ==
    /\ pc = "closed"
    /\ finalized
    /\ pushes = MaxPushes
    /\ pops = MaxPushes

\* the amounts credited to address a in the state outside every scope
Credited(a) == { e.n : e \in { w \in substates[1] : w.op = "deposit" /\ w.a = a } }

\* C2 (as claimed): after finalize_transact the refund credited to the caller
\* and the reward credited to the coinbase are in the state that is left once
\* the transaction's scope has been popped, whatever the outcome.
CreditsSurviveFinalize ==
    finalized =>
        /\ fin.refunded_fee > 0 => Credited(invoke.caller) = {fin.refunded_fee}
        /\ fin.coinbase_reward > 0 => Credited("coinbase") = {fin.coinbase_reward}

\* C3 (as claimed): refunded_fee + coinbase_reward is the gas fee withheld,
\* and the reward is not negative, whatever leftover gas the meter reports.
FeeSplitAnyLeftover ==
    finalized =>
        /\ fin.coinbase_reward >= 0
        /\ fin.refunded_fee + fin.coinbase_reward = invoke.gas_fee

\* C3 (amended): the reward is never negative, and refunded_fee +
\* coinbase_reward is the gas fee withheld whenever the leftover gas is at
\* most the gas limit, saturated products included; when the meter reports
\* more, the sum is the larger of the fee and the refund.
FeeSplit ==
    finalized =>
        /\ fin.coinbase_reward >= 0
        /\ fin.left_gas <= fin.gas_limit =>
              fin.refunded_fee + fin.coinbase_reward = invoke.gas_fee
        /\ fin.refunded_fee + fin.coinbase_reward
              = IF invoke.gas_fee < fin.refunded_fee THEN fin.refunded_fee ELSE invoke.gas_fee

\* a refund and a reward that are both positive, out of a saturated fee
FeeSplitSaturated ==
    /\ finalized
    /\ fin.left_gas <= fin.gas_limit
    /\ fin.gas_limit * invoke.gas_price > MaxWord
    /\ fin.refunded_fee > 0
    /\ fin.coinbase_reward > 0

begun == ret.op = "new_transact" /\ ret.result = "Ok"

\* C4 (as claimed): the fee withdrawn and recorded is gas_limit * gas_price
\* exactly, also when the product exceeds the largest word.
GasFeeExactProduct ==
    begun =>
        /\ invoke.gas_fee = frames[1].budget * invoke.gas_price
        /\ Ev("withdrawal", "caller", frames[1].budget * invoke.gas_price) \in substates[1]

\* C4 (amended): the fee withdrawn and recorded is gas_limit * gas_price when
\* the product fits the word, and the largest word when it does not.
GasFeeSaturating ==
    begun =>
        /\ invoke.gas_fee = Min(frames[1].budget * invoke.gas_price, MaxWord)
        /\ Ev("withdrawal", "caller", Min(frames[1].budget * invoke.gas_price, MaxWord))
              \in substates[1]

\* a transaction begun with a product that does not fit the word
GasFeeOverflowed ==
    /\ begun
    /\ frames[1].budget * invoke.gas_price > MaxWord

\* C5: when the final outcome of finalize_transact is an exception or a fatal
\* error, a failed code deployment included, the refund is zero and the
\* coinbase receives the whole fee, whatever gas is left.
ForfeitOnError ==
    (finalized /\ fin.final \notin {"Succeed", "Reverted"}) =>
        /\ fin.refunded_fee = 0
        /\ fin.coinbase_reward = invoke.gas_fee
        /\ Ev("deposit", invoke.caller, 0) \in Range(log)
        /\ Ev("deposit", "coinbase", invoke.gas_fee) \in Range(log)

\* a creation that ran to success with gas left and lost it all to a failed
\* deployment
ForfeitAfterDeployFailure ==
    /\ finalized
    /\ fin.result = "Succeed"
    /\ fin.final = "Exception"
    /\ fin.left_gas > 0
    /\ invoke.gas_price > 0
    /\ invoke.gas_fee > 0

DeployGasPaidByCaller ==
    (finalized /\ invoke.create_address # "None" /\ fin.result = "Succeed"
               /\ fin.final = "Succeed" /\ fin.left_gas <= fin.gas_limit) =>
        fin.refunded_fee = saturating_mul(fin.left_gas - fin.deploy_gas, invoke.gas_price)

\* C8 (as claimed): when the code deployment of a successful Create child
\* fails, the outcome written back is an exception and the state merge, the
\* pop and the gas merge all use Discard.
DeployFailureDiscards ==
    (ret.op = "exit_substack" /\ Failed(Ev("deploy_create_code", "created", 0)) \in Range(log)) =>
        /\ \E e \in Range(log) : e.op = "feedback" /\ e.a = "Exception"
        /\ \A e \in Range(log) :
              e.op \in {"merge_state", "pop_substate", "merge_gas"} => e.a = "Discard"

\* C9 (as claimed): finalize_transact returns an error only when code
\* deployment fails after a successful run of a creation.
ErrorOnlyOnDeployFailure ==
    (finalized /\ ret.result # "Ok") =>
        (fin.result = "Succeed" /\ invoke.create_address # "None" /\ deploy_failed)

\* C9 (amended): finalize_transact returns an error exactly when it is given a
\* failed outcome, which it returns as it is, or when code deployment fails
\* after a successful run of a creation; otherwise it returns the non-error
\* result.
ErrorOnFailureOrDeployFailure ==
    finalized =>
        /\ ret.result # "Ok" <=>
              \/ fin.result # "Succeed"
              \/ (fin.result = "Succeed" /\ invoke.create_address # "None" /\ deploy_failed)
        /\ fin.result # "Succeed" => ret.result = fin.result
        /\ deploy_failed => (fin.result = "Succeed" /\ ret.result = "Exception")

\* a successful creation whose deployment failed, returned as an error
DeployFailureReturned ==
    /\ finalized
    /\ fin.result = "Succeed"
    /\ deploy_failed
    /\ ret.result = "Exception"

\* C10 (as claimed): with depth at or over the call-stack limit, enter_substack
\* yields call-too-deep for every trap and changes nothing.
TooDeepForEveryTrap ==
    [][(ret'.op = "enter_substack" /\ ret'.depth >= config.call_stack_limit) =>
          /\ ret'.result = "CallTooDeep"
          /\ log' = <<>>
          /\ UNCHANGED <<frames, substates, pushes, pops>>]_vars

\* C10 (amended): with depth at or over the call-stack limit, enter_substack
\* yields call-too-deep for every trap that resolves to an opcode, call/create
\* or not, and the interrupt for a trap that does not; either way it changes
\* nothing: no scope pushed or popped, the parent's interpreter and gas meter
\* as they were, no call on the backend.
TooDeepForEveryOpcode ==
    [][(ret'.op = "enter_substack" /\ ret'.depth >= config.call_stack_limit) =>
          /\ ret'.result = IF ret'.trap = "Interrupt" THEN "Trap" ELSE "CallTooDeep"
          /\ log' = <<>>
          /\ UNCHANGED <<frames, substates, pushes, pops>>]_vars

\* a call refused for its depth
CallTooDeep ==
    /\ ret.op = "enter_substack"
    /\ ret.depth >= config.call_stack_limit
    /\ ret.trap = "Call"
    /\ ret.result = "CallTooDeep"

\* a trap that is no call or create, refused for its depth
OtherOpcodeTooDeep ==
    /\ ret.op = "enter_substack"
    /\ ret.depth >= config.call_stack_limit
    /\ ret.trap = "Other"
    /\ ret.result = "CallTooDeep"

\* C11: when the backend refuses the withdrawal of the gas fee (the caller's
\* balance is below it), new_transact returns the insufficient-funds error and
\* the failed withdrawal is the only call it made: no scope pushed, nothing
\* marked hot, no nonce incremented, no balance changed, no frame built; and
\* it returns that error in no other case.
RefusedWithoutEffect ==
    ret.op = "new_transact" =>
        /\ funds < log[1].n <=> ret.result = "OutOfFund"
        /\ ret.result = "OutOfFund" =>
              /\ log = <<Ev("err", "withdrawal", log[1].n)>>
              /\ pushes = 0
              /\ pops = 0
              /\ substates = << {} >>
              /\ frames = <<>>
              /\ invoke = NoInvoke
              /\ pc = "closed"

\* a call with an access list, refused for the funds of a caller that has some
RefusedForFunds ==
    /\ ret.op = "new_transact"
    /\ ret.result = "OutOfFund"
    /\ ret.input.kind = "Call"
    /\ ret.input.access_list # <<>>
    /\ funds > 0
    /\ log[1].n > funds

\* C12: when a step of new_transact fails after the fee was withdrawn, the
\* scope just pushed is popped once, with Discard, right after the failed
\* step; an error is returned and no frame; the substate stack is as deep as
\* before the call, and the state holds the withdrawal of the fee and nothing
\* else: what the setup wrote is gone, and the fee is not given back.
DiscardOnSetupFailure ==
    (ret.op = "new_transact" /\ ret.result \notin {"Ok", "OutOfFund"}) =>
        /\ ret.result \in {"Exception", "Fatal"}
        /\ pc = "closed"
        /\ frames = <<>>
        /\ CountOp(log, "push_substate") = 1
        /\ CountOp(log, "pop_substate") = 1
        /\ log[Len(log)] = Ev("pop_substate", "Discard", 0)
        /\ log[Len(log) - 1].op = "err"
        /\ CountOp(log, "err") = 1
        /\ Len(substates) = 1
        /\ substates[1] = {Ev("withdrawal", "caller", log[1].n)}

\* a call whose last step, the nonce increment, failed after a positive fee
\* was withdrawn and the access list and the addresses were marked hot
NonceIncrementFailed ==
    /\ ret.op = "new_transact"
    /\ ret.result = "Fatal"
    /\ ret.input.access_list # <<>>
    /\ log[1] = Ev("withdrawal", "caller", log[1].n)
    /\ log[1].n > 0
    /\ log[Len(log) - 1] = Ev("err", "inc_nonce", 0)

\* C13: finalize_transact pops the scope of the transaction once, as its last
\* call on the backend and pushes none; the pop is a Commit exactly when the
\* outcome it was given is success and, for a creation, the code was deployed,
\* which is exactly when it returns no error; it is a Discard for every other
\* outcome, Reverted and a failed deployment included.  After a Commit what
\* the transaction wrote is in the state, after a Discard it is not.
FinalizePopsOnce ==
    finalized =>
        LET pop == log[Len(log)]
            created == invoke.create_address # "None"
        IN /\ CountOp(log, "pop_substate") = 1
           /\ CountOp(log, "push_substate") = 0
           /\ pop.op = "pop_substate"
           /\ pop.a \in {"Commit", "Discard"}
           /\ pop.a = "Commit" <=> (ret.input = "Succeed" /\ ~deploy_failed)
           /\ pop.a = "Commit" <=> ret.result = "Ok"
           /\ (pop.a = "Commit" /\ created) => Ev("set_code", invoke.create_address, 0) \in substates[1]
           /\ ret.input = "Reverted" => pop.a = "Discard"
           /\ Len(substates) = 1
           /\ IF pop.a = "Commit"
              THEN Ev("deposit", "coinbase", fin.coinbase_reward) \in substates[1]
              ELSE substates[1] = {Ev("withdrawal", "caller", invoke.gas_fee)}

\* a creation that succeeded, failed to deploy its code, and was discarded
DeployFailureDiscarded ==
    /\ finalized
    /\ ret.input = "Succeed"
    /\ deploy_failed
    /\ log[Len(log)] = Ev("pop_substate", "Discard", 0)

\* the strategy the outcome of a child asks for
StrategyFor(outcome) ==
    CASE outcome = "Succeed" -> "Commit"
      [] outcome = "Reverted" -> "Revert"
      [] OTHER -> "Discard"

\* the gas that code deployment charged in the calls of an operation
ChargedByDeploy(calls) ==
    IF \E e \in Range(calls) : e.op = "record_codedeposit"
    THEN (CHOOSE e \in Range(calls) : e.op = "record_codedeposit").n
    ELSE 0

\* the parent's gas once the child's meter is merged under a strategy
MergedGas(gas, child_gas, strategy) ==
    IF strategy = "Discard" THEN gas ELSE Min(gas + child_gas, MaxWord)

\* the parent's gas after exit_substack took the frame on top of frames
GasAfterExit(before, calls, outcome) ==
    MergedGas(before[Len(before) - 1].gas,
              before[Len(before)].gas - ChargedByDeploy(calls),
              StrategyFor(outcome))

\* C14: exit_substack, for a Call and for a Create child, takes its strategy
\* from the outcome it is given (Commit for success, Revert for Reverted,
\* Discard for any other error) and uses that one strategy for the merge of
\* the child's state, for the pop of the scope and for the merge of the
\* child's gas meter, each made once: on Commit the scope's writes pass to
\* the scope below, otherwise they are dropped; on Discard the parent's gas
\* is as before, otherwise the child's remaining gas is added to it.
OneStrategyFromOutcome ==
    [][ret'.op = "exit_substack" =>
          LET strategy == StrategyFor(ret'.input)
              n == Len(substates)
              m == Len(frames')
          IN /\ ret'.trap \in {"Call", "Create"}
             /\ \A op \in {"merge_state", "pop_substate", "merge_gas"} :
                   /\ CountOp(log', op) = 1
                   /\ \A e \in Range(log') : e.op = op => e.a = strategy
             /\ Len(substates') = n - 1
             /\ IF strategy = "Commit"
                THEN substates'[n - 1] = substates[n - 1] \cup substates[n] \cup Writes(log')
                ELSE substates'[n - 1] = substates[n - 1]
             /\ frames'[m].gas = GasAfterExit(frames, log', ret'.input)]_vars

\* a creation that reverted, merged and popped with Revert, its parent left
\* with gas
CreateReverted ==
    /\ ret.op = "exit_substack"
    /\ ret.trap = "Create"
    /\ ret.input = "Reverted"
    /\ Ev("pop_substate", "Revert", 0) \in Range(log)
    /\ frames[Len(frames)].gas > 0

\* C15: every exit_substack, for a Call or a Create child and any outcome,
\* makes the write-back once, as its last call, after the one merge of the
\* child's state, the one pop of the scope and the one merge of the gas
\* meter; it returns an error exactly when the write-back fails, and then the
\* scope is popped and the gas merged all the same; only a write-back that
\* succeeds changes the parent's interpreter.
FeedbackLast ==
    [][ret'.op = "exit_substack" =>
          LET last == log'[Len(log')]
              m == Len(frames')
          IN /\ CountOp(log', "feedback") = 1
             /\ last.op = "feedback"
             /\ \A op \in {"merge_state", "pop_substate", "merge_gas"} : CountOp(log', op) = 1
             /\ ret'.result # "Ok" <=> last.n = 1
             /\ m = Len(frames) - 1
             /\ Len(substates') = Len(substates) - 1
             /\ pops' = pops + 1
             /\ frames'[m].gas = GasAfterExit(frames, log', ret'.input)
             /\ frames'[m].stack = IF ret'.result = "Ok" THEN last.a ELSE frames[m].stack]_vars

\* a write-back that failed after the child's gas was merged into the parent
FeedbackFailed ==
    /\ ret.op = "exit_substack"
    /\ ret.result = "Exception"
    /\ ret.input = "Succeed"
    /\ log[Len(log)] = Ev("feedback", "Succeed", 1)
    /\ frames[Len(frames)].stack = "trapped"
    /\ frames[Len(frames)].gas > 2

\* the budget the claim gives a child: min(F, R) + S
ClaimedBudget(gas, trap) ==
    LET F == IF config.call_l64_after_gas THEN gas - (gas \div 64) ELSE gas
        R == IF trap.target_gas = NoGas THEN F ELSE trap.target_gas
        S == IF trap.kind = "Call" /\ trap.has_value THEN config.call_stipend ELSE 0
    IN Min(F, R) + S

\* C16 (as claimed): the budget of the child that enter_substack builds is
\* min(F, R) + S, with F the parent's remaining gas g less floor(g/64) under
\* the 63/64 rule and g without it, R the gas the opcode requests (F when it
\* requests none) and S the stipend for a call with value, 0 otherwise.
ChildBudgetExact ==
    [][(ret'.op = "enter_substack" /\ ret'.result = "Ok") =>
          frames'[Len(frames')].budget = ClaimedBudget(frames[Len(frames)].gas, ret'.input)]_vars

\* C16 (amended): the budget of the child that enter_substack builds is
\* min(F, R) + S capped at the largest word: it is min(F, R) + S exactly
\* whenever that fits the word, which is always so under the 63/64 rule with
\* a stipend of at most floor(MaxWord / 64); creations get no stipend; the
\* child's meter starts with the budget.
ChildBudgetSaturating ==
    [][(ret'.op = "enter_substack" /\ ret'.result = "Ok") =>
          LET claimed == ClaimedBudget(frames[Len(frames)].gas, ret'.input)
              child == frames'[Len(frames')]
          IN /\ child.budget = Min(claimed, MaxWord)
             /\ child.gas = child.budget
             /\ (config.call_l64_after_gas /\ config.call_stipend <= MaxWord \div 64)
                    => child.budget = claimed
             /\ ret'.input.kind = "Create"
                    => child.budget <= frames[Len(frames)].gas]_vars

\* a call with value that was forwarded all the gas of the largest word
\* without the 63/64 rule: the stipend does not fit on top of it
StipendSaturated ==
    /\ ret.op = "enter_substack"
    /\ ret.result = "Ok"
    /\ ~config.call_l64_after_gas
    /\ ret.input.kind = "Call"
    /\ ret.input.has_value
    /\ frames[Len(frames) - 1].budget = MaxWord
    /\ frames[Len(frames)].budget = MaxWord

\* the example of the claim at the scale of the model: under the 63/64 rule a
\* parent with 64 units left forwards 63 when nothing is requested
ForwardedSixtyThree ==
    /\ ret.op = "enter_substack"
    /\ ret.result = "Ok"
    /\ config.call_l64_after_gas
    /\ ret.input = Trap("Call", FALSE, FALSE, NoGas)
    /\ frames[Len(frames)].budget = 63
    /\ frames[Len(frames) - 1].gas = 1

\* C17: the frame that new_transact builds is never static; below a static
\* frame every open frame is static, call or create, whatever its opcode
\* asked for; the child that enter_substack builds on a non-static parent is
\* static exactly when the trap is a call whose opcode requests it.
StaticInherited ==
    /\ Len(frames) >= 1 => ~frames[1].is_static
    /\ \A i \in 1..Len(frames) : \A j \in i..Len(frames) :
          frames[i].is_static => frames[j].is_static
    /\ (ret.op = "enter_substack" /\ ret.result = "Ok") =>
          LET child == frames[Len(frames)]
              parent == frames[Len(frames) - 1]
          IN /\ parent.is_static => child.is_static
             /\ ~parent.is_static =>
                   (child.is_static <=> (ret.input.kind = "Call" /\ ret.input.is_static))

\* a creation, whose opcode requests nothing static, entered below a static
\* call of the top-level frame
StaticGrandchild ==
    /\ ret.op = "enter_substack"
    /\ ret.result = "Ok"
    /\ Len(frames) = 3
    /\ ~frames[1].is_static
    /\ frames[2].is_static
    /\ frames[3].kind = "Create"
    /\ ~ret.input.is_static
    /\ frames[3].is_static

\* the number of marks that the entries before entry i of an access list take
RECURSIVE MarksBefore(_, _)
MarksBefore(access_list, i) ==
    IF i <= 1 THEN 0
    ELSE MarksBefore(access_list, i - 1) + 1 + Len(access_list[i - 1].keys)

\* C18: new_transact for a Call pushes the scope and then marks the access
\* list hot in list order, for each entry the address alone (key 0 stands for
\* None) and then its keys in their order; the code of the target is looked
\* up once, after the last of these marks; a mark that fails is the last one
\* made: the scope is popped with Discard, an error returned, and nothing
\* marked stays in the state.
HotMarksInListOrder ==
    (ret.op = "new_transact" /\ ret.input.kind = "Call" /\ ret.result # "OutOfFund") =>
        LET access_list == ret.input.access_list
            total == MarksBefore(access_list, Len(access_list) + 1)
        IN /\ log[1].op = "withdrawal"
           /\ log[2].op = "push_substate"
           /\ \A i \in 1..Len(access_list) : \A k \in 0..Len(access_list[i].keys) :
                 LET at == 2 + MarksBefore(access_list, i) + 1 + k
                     key == IF k = 0 THEN 0 ELSE access_list[i].keys[k]
                 IN (at <= Len(log) /\ log[at].op # "pop_substate") =>
                        \/ log[at] = Ev("mark_hot", access_list[i].address, key)
                        \/ log[at] = Ev("err", "mark_hot", key)
           /\ \A at \in 1..Len(log) :
                 /\ log[at].op = "code" =>
                       /\ at = 3 + total
                       /\ \A before \in 3..(2 + total) : log[before].op = "mark_hot"
                 /\ (log[at].op = "err" /\ at <= 2 + total) =>
                       /\ Len(log) = at + 1
                       /\ log[at + 1] = Ev("pop_substate", "Discard", 0)
                       /\ ret.result \in {"Exception", "Fatal"}
                       /\ \A w \in substates[1] : w.op # "mark_hot"
           /\ ret.result = "Ok" => (Len(log) > 3 + total /\ log[3 + total].op = "code")

\* an access list of two entries whose third mark, the key of the second
\* entry, failed after the two addresses were marked
HotMarkFailedMidway ==
    /\ ret.op = "new_transact"
    /\ ret.input.kind = "Call"
    /\ Len(ret.input.access_list) = 2
    /\ Len(log) = 6
    /\ log[3] = Ev("mark_hot", "B", 0)
    /\ log[4] = Ev("mark_hot", "A", 0)
    /\ log[5] = Ev("err", "mark_hot", 2)
    /\ log[6] = Ev("pop_substate", "Discard", 0)

\* the example of the claim: [(A, [k1, k2])] marks A, (A, k1), (A, k2) and
\* then looks the code up
HotMarksOfExample ==
    /\ ret.op = "new_transact"
    /\ ret.result = "Ok"
    /\ ret.input.kind = "Call"
    /\ Len(log) >= 6
    /\ SubSeq(log, 2, 6) = <<Ev("push_substate", "", 0), Ev("mark_hot", "A", 0),
                              Ev("mark_hot", "A", 1), Ev("mark_hot", "A", 2),
                              Ev("code", "target", 0)>>

\* what enter_substack returns inside Exit, and what it leaves behind: a child
\* with its scope, or an error with no frame and no scope more than before
ExitsWithChildOrError ==
    /\ ret'.result \in {"Ok", "CallTooDeep", "Exception"}
    /\ IF ret'.result = "Ok"
       THEN /\ Len(frames') = Len(frames) + 1
            /\ frames'[Len(frames')].kind = ret'.input.kind
            /\ Len(substates') = Len(substates) + 1
       ELSE /\ Len(frames') = Len(frames)
            /\ Len(substates') = Len(substates)

\* enter_substack left everything as it was and called nothing
EnterChangedNothing ==
    /\ log' = <<>>
    /\ UNCHANGED <<frames, substates, pushes, pops>>

\* C19 (as claimed): enter_substack returns Trap(interrupt) exactly when the
\* trap signal is no call or create opcode, and then changes nothing; in every
\* other case it returns Exit with a child or an error.
TrapUnlessCallOrCreate ==
    [][ret'.op = "enter_substack" =>
          /\ ret'.result = "Trap" <=> ret'.input.kind \notin {"Call", "Create"}
          /\ ret'.result = "Trap" => EnterChangedNothing
          /\ ret'.result # "Trap" => ExitsWithChildOrError]_vars

\* C19 (amended): enter_substack returns Trap(interrupt) exactly when
\* into_call_create_trap yields the interrupt instead of an opcode, and then
\* changes nothing: no scope pushed, no call on the backend, the parent's
\* interpreter and gas meter as they were; in every other case, an opcode
\* that is no call or create included, it returns Exit with a child and its
\* scope or with an error; an opcode that is no call or create gets an error.
TrapOnInterruptOnly ==
    [][ret'.op = "enter_substack" =>
          /\ ret'.result = "Trap" <=> ret'.input.kind = "Interrupt"
          /\ ret'.result = "Trap" => EnterChangedNothing
          /\ ret'.result # "Trap" => ExitsWithChildOrError
          /\ ret'.input.kind = "Other" => ret'.result \in {"CallTooDeep", "Exception"}]_vars

\* an interrupt deferred by a child frame, where a call would have been entered
InterruptDeferred ==
    /\ ret.op = "enter_substack"
    /\ ret.input.kind = "Interrupt"
    /\ ret.result = "Trap"
    /\ ret.depth = 1
    /\ ret.depth < config.call_stack_limit

\* an opcode that is no call or create, answered with an error inside Exit
OtherOpcodeRefused ==
    /\ ret.op = "enter_substack"
    /\ ret.input.kind = "Other"
    /\ ret.depth = 0
    /\ ret.result = "Exception"

\* C20: with the depth passed to enter_substack being the number of child
\* frames open (0 for the frame of the transaction), the open child frames,
\* and with them the open scopes above that of the transaction, never exceed
\* the call-stack limit; an opcode at a depth at or over the limit is refused
\* before anything is called, and an enter_substack that decoded the trap,
\* looked code up, built a sub-meter or pushed a scope was under the limit.
DepthBounded ==
    [][/\ Len(frames') >= 1 => Len(frames') - 1 <= config.call_stack_limit
       /\ pc' = "running" => Len(substates') - 2 <= config.call_stack_limit
       /\ ret'.op = "enter_substack" =>
             /\ ret'.depth = Len(frames) - 1
             /\ (ret'.depth >= config.call_stack_limit /\ ret'.input.kind # "Interrupt") =>
                   (ret'.result = "CallTooDeep" /\ EnterChangedNothing)
             /\ log' # <<>> => ret'.depth < config.call_stack_limit
             /\ \A at \in 1..Len(log') :
                   log'[at].op = "push_substate" =>
                       /\ at > 3
                       /\ log'[1].op = "new_from"
                       /\ log'[2].op = "code"
                       /\ log'[3].op = "submeter"]_vars

\* as many child frames open as the limit allows, a call refused for it, and
\* the transaction still free to push a scope
LimitReached ==
    /\ ret.op = "enter_substack"
    /\ ret.input.kind = "Call"
    /\ ret.result = "CallTooDeep"
    /\ Len(frames) - 1 = config.call_stack_limit
    /\ Len(substates) - 2 = config.call_stack_limit
    /\ pushes < MaxPushes

====
